---- MODULE Spec2Model ----
(***************************************************************************)
(* Model of auth/provider_config.go: the nested key-path store, the SAML   *)
(* create/update request builders, the provider-config client and the      *)
(* transfer-object mapper.                                                 *)
(*                                                                         *)
(* Go strings are sequences of one-character strings, so that              *)
(* strings.Split, strings.Join and strings.HasPrefix are computed and not  *)
(* assumed.  Go interface{} values are tagged records (field t is the      *)
(* dynamic type); a failed type assertion is the outcome panic = TRUE.     *)
(***************************************************************************)
EXTENDS Integers, Sequences, FiniteSets, TLC

VARIABLES
    nm,         \* SpecStore: a nestedMap used directly through Set/Get
    nsets,      \* SpecStore: number of Set calls made so far
    out,        \* SpecStore: outcome of the most recent Set/Get call
    projectID,  \* Spec: providerConfigClient.projectID
    config,     \* Spec: the builder the caller holds (create, update or nil)
    given,      \* Spec: the argument last passed to each setter of config
    last,       \* Spec: outcome of the most recent client operation
    dao,        \* SpecMapper: a decoded samlProviderConfigDAO
    mapped      \* SpecMapper: result of dao.toSAMLProviderConfig()

vars == <<nm, nsets, out, projectID, config, given, last, dao, mapped>>

----------------------------------------------------------------------------
(* Bounds *)

MaxPathLen == 3
MaxSets == 2
MaxCerts == 1
MaxNameLen == 4
MaxDaoCerts == 2

----------------------------------------------------------------------------
(* Program constants, lines 28-41 *)

providerConfigEndpoint ==
    <<"h", "t", "t", "p", "s", ":", "/", "/", "i", "d", "e", "n", "t", "i", "t", "y", "t", "o", "o", "l", "k", "i", "t", ".", "g", "o", "o", "g", "l", "e", "a", "p", "i", "s", ".", "c", "o", "m", "/", "v", "2", "b", "e", "t", "a", "1">>

idpEntityIDKey ==
    <<"i", "d", "p", "C", "o", "n", "f", "i", "g", ".", "i", "d", "p", "E", "n", "t", "i", "t", "y", "I", "d">>

ssoURLKey ==
    <<"i", "d", "p", "C", "o", "n", "f", "i", "g", ".", "s", "s", "o", "U", "r", "l">>

signRequestKey ==
    <<"i", "d", "p", "C", "o", "n", "f", "i", "g", ".", "s", "i", "g", "n", "R", "e", "q", "u", "e", "s", "t">>

idpCertsKey ==
    <<"i", "d", "p", "C", "o", "n", "f", "i", "g", ".", "i", "d", "p", "C", "e", "r", "t", "i", "f", "i", "c", "a", "t", "e", "s">>

spEntityIDKey ==
    <<"s", "p", "C", "o", "n", "f", "i", "g", ".", "s", "p", "E", "n", "t", "i", "t", "y", "I", "d">>

callbackURIKey ==
    <<"s", "p", "C", "o", "n", "f", "i", "g", ".", "c", "a", "l", "l", "b", "a", "c", "k", "U", "r", "i">>

displayNameKey ==
    <<"d", "i", "s", "p", "l", "a", "y", "N", "a", "m", "e">>

enabledKey ==
    <<"e", "n", "a", "b", "l", "e", "d">>

----------------------------------------------------------------------------
(* The strings package, as used by the file *)

\* strings.HasPrefix(s, prefix)
HasPrefix(s, prefix) ==
    /\ Len(s) >= Len(prefix)
    /\ SubSeq(s, 1, Len(prefix)) = prefix

\* strings.Split(s, sep) for a one-character separator: always at least one
\* segment, empty segments kept.
RECURSIVE Split(_, _)
Split(s, sep) ==
    IF \A i \in 1..Len(s) : s[i] # sep
    THEN <<s>>
    ELSE LET i == CHOOSE j \in 1..Len(s) :
                      /\ s[j] = sep
                      /\ \A k \in 1..(j - 1) : s[k] # sep
         IN  <<SubSeq(s, 1, i - 1)>> \o Split(SubSeq(s, i + 1, Len(s)), sep)

\* strings.Join(elems, sep)
RECURSIVE Join(_, _)
Join(elems, sep) ==
    IF Len(elems) = 0 THEN <<>>
    ELSE IF Len(elems) = 1 THEN elems[1]
    ELSE elems[1] \o <<sep>> \o Join(Tail(elems), sep)

----------------------------------------------------------------------------
(* interface{} values.  Every value is a record with the same fields, t    *)
(* being the dynamic type: "nil", "string", "bool", "certs"                *)
(* ([]idpCertificate) or "map" (map[string]interface{}).                   *)

EmptyMap == <<>>

VNil == [t |-> "nil", s |-> <<>>, b |-> FALSE, c |-> <<>>, m |-> EmptyMap]

VStr(s) == [t |-> "string", s |-> s, b |-> FALSE, c |-> <<>>, m |-> EmptyMap]

VBool(b) == [t |-> "bool", s |-> <<>>, b |-> b, c |-> <<>>, m |-> EmptyMap]

VCerts(c) == [t |-> "certs", s |-> <<>>, b |-> FALSE, c |-> c, m |-> EmptyMap]

VMap(m) == [t |-> "map", s |-> <<>>, b |-> FALSE, c |-> <<>>, m |-> m]

\* curr[segment] = value on a Go map
MapPut(curr, segment, value) ==
    [k \in (DOMAIN curr) \cup {segment} |-> IF k = segment THEN value ELSE curr[k]]

----------------------------------------------------------------------------
(* nestedMap *)

\* The loop of nestedMap.Get from segment idx on.  val.(map[string]interface{})
\* on a value that is not a map panics.
RECURSIVE GetWalk(_, _, _)
GetWalk(curr, segments, idx) ==
    LET segment == segments[idx]
        ok == segment \in DOMAIN curr
        val == IF ok THEN curr[segment] ELSE VNil
    IN  IF idx = Len(segments) \/ ~ok
        THEN [val |-> val, ok |-> ok, panic |-> FALSE]
        ELSE IF val.t # "map"
        THEN [val |-> VNil, ok |-> FALSE, panic |-> TRUE]
        ELSE GetWalk(val.m, segments, idx + 1)

Get(m, key) ==
    GetWalk(m, Split(key, "."), 1)

\* nestedMap.GetString: val.(string) panics on any other dynamic type.
GetString(m, key) ==
    LET r == Get(m, key)
    IN  IF r.panic THEN [s |-> <<>>, ok |-> FALSE, panic |-> TRUE]
        ELSE IF r.ok
        THEN IF r.val.t = "string"
             THEN [s |-> r.val.s, ok |-> TRUE, panic |-> FALSE]
             ELSE [s |-> <<>>, ok |-> FALSE, panic |-> TRUE]
        ELSE [s |-> <<>>, ok |-> FALSE, panic |-> FALSE]

\* The loop of nestedMap.Set from segment idx on.  child.(map[string]interface{})
\* panics when an existing intermediate value is not a map; nothing has been
\* written at that point, since a freshly created child has no keys.
RECURSIVE SetWalk(_, _, _, _)
SetWalk(curr, segments, idx, value) ==
    LET segment == segments[idx]
    IN  IF idx = Len(segments)
        THEN [m |-> MapPut(curr, segment, value), panic |-> FALSE]
        ELSE IF segment \in DOMAIN curr
        THEN IF curr[segment].t # "map"
             THEN [m |-> curr, panic |-> TRUE]
             ELSE LET r == SetWalk(curr[segment].m, segments, idx + 1, value)
                  IN  IF r.panic
                      THEN [m |-> curr, panic |-> TRUE]
                      ELSE [m |-> MapPut(curr, segment, VMap(r.m)), panic |-> FALSE]
        ELSE LET r == SetWalk(EmptyMap, segments, idx + 1, value)
             IN  [m |-> MapPut(curr, segment, VMap(r.m)), panic |-> FALSE]

\* Set storing under the whole key, without splitting it
Set_NoSplit(m, key, value) ==
    [m |-> MapPut(m, key, value), panic |-> FALSE]

Set(m, key, value) ==
    SetWalk(m, Split(key, "."), 1, value)

\* The order in which "for k, v := range data" visits the keys of data: Go
\* leaves it unspecified.  order is a sequence of keys; the keys of data are
\* visited in the order they appear in it, any other key after those.
RECURSIVE SetToSeq(_)
SetToSeq(S) ==
    IF S = {} THEN <<>>
    ELSE LET x == CHOOSE y \in S : TRUE
         IN  <<x>> \o SetToSeq(S \ {x})

RangeKeys(data, order) ==
    LET listed == SelectSeq(order, LAMBDA k : k \in DOMAIN data)
        rest == (DOMAIN data) \ {order[i] : i \in 1..Len(order)}
    IN  listed \o SetToSeq(rest)

\* buildMask; buildMaskLoop is its range loop over the remaining keys.
RECURSIVE buildMask(_, _)
RECURSIVE buildMaskLoop_WithParents(_, _, _)
RECURSIVE buildMaskLoop(_, _, _)
buildMaskLoop_WithParents(data, keys, order) ==
    IF keys = <<>> THEN <<>>
    ELSE LET k == Head(keys)
             v == data[k]
             items == IF v.t = "map"
                      THEN LET childMask == buildMask(v.m, order)
                           IN  <<k>> \o [i \in 1..Len(childMask) |-> k \o <<".">> \o childMask[i]]
                      ELSE <<k>>
         IN  items \o buildMaskLoop_WithParents(data, Tail(keys), order)

buildMaskLoop(data, keys, order) ==
    IF keys = <<>> THEN <<>>
    ELSE LET k == Head(keys)
             v == data[k]
             items == IF v.t = "map"
                      THEN LET childMask == buildMask(v.m, order)
                           IN  [i \in 1..Len(childMask) |-> k \o <<".">> \o childMask[i]]
                      ELSE <<k>>
         IN  items \o buildMaskLoop(data, Tail(keys), order)

buildMask(data, order) ==
    buildMaskLoop(data, RangeKeys(data, order), order)

\* nestedMap.UpdateMask
UpdateMask(m, order) ==
    [mask |-> buildMask(m, order), err |-> "nil"]

----------------------------------------------------------------------------
(* net/url.ParseRequestURI, for URLs over letters, digits and the          *)
(* characters : / . + - ? *  (no control bytes, escapes, userinfo or       *)
(* bracketed hosts).  TRUE when it returns a nil error.                    *)

Letters ==
    {"a", "b", "c", "d", "e", "f", "g", "h", "i", "j", "k", "l", "m", "n", "o", "p", "q", "r", "s", "t", "u", "v", "w", "x", "y", "z", "A", "B", "C", "D", "E", "F", "G", "H", "I", "J", "K", "L", "M", "N", "O", "P", "Q", "R", "S", "T", "U", "V", "W", "X", "Y", "Z"}

Digits ==
    {"0", "1", "2", "3", "4", "5", "6", "7", "8", "9"}

\* url.getScheme from position i on: [scheme, rest, err]
RECURSIVE getScheme(_, _)
getScheme(rawURL, i) ==
    IF i > Len(rawURL) THEN [scheme |-> <<>>, rest |-> rawURL, err |-> FALSE]
    ELSE LET c == rawURL[i]
         IN  IF c \in Letters THEN getScheme(rawURL, i + 1)
             ELSE IF c \in Digits \cup {"+", "-", "."}
             THEN IF i = 1
                  THEN [scheme |-> <<>>, rest |-> rawURL, err |-> FALSE]
                  ELSE getScheme(rawURL, i + 1)
             ELSE IF c = ":"
             THEN IF i = 1
                  THEN [scheme |-> <<>>, rest |-> <<>>, err |-> TRUE]
                  ELSE [scheme |-> SubSeq(rawURL, 1, i - 1),
                        rest |-> SubSeq(rawURL, i + 1, Len(rawURL)), err |-> FALSE]
             ELSE [scheme |-> <<>>, rest |-> rawURL, err |-> FALSE]

\* url.validOptionalPort on the host[:port] part of an authority
validOptionalPort(host) ==
    \/ \A i \in 1..Len(host) : host[i] # ":"
    \/ LET colon == CHOOSE j \in 1..Len(host) :
                        /\ host[j] = ":"
                        /\ \A k \in 1..(j - 1) : host[k] # ":"
       IN  \A k \in (colon + 1)..Len(host) : host[k] \in Digits

ParseRequestURI(rawURL) ==
    IF rawURL = <<>> THEN FALSE
    ELSE IF rawURL = <<"*">> THEN TRUE
    ELSE LET sch == getScheme(rawURL, 1)
             rest == Split(sch.rest, "?")[1]
         IN  IF sch.err THEN FALSE
             ELSE IF ~HasPrefix(rest, <<"/">>)
             THEN sch.scheme # <<>>
             ELSE IF sch.scheme # <<>> /\ HasPrefix(rest, <<"/", "/">>)
             THEN validOptionalPort(Split(SubSeq(rest, 3, Len(rest)), "/")[1])
             ELSE TRUE

----------------------------------------------------------------------------
(* Builders.  A builder is [kind, id, params]; params is a nil nestedMap   *)
(* (t = "nilmap") until the first setter call.                             *)

VNilMap == [t |-> "nilmap", s |-> <<>>, b |-> FALSE, c |-> <<>>, m |-> EmptyMap]

\* A []string setter argument, as the caller passed it
VStrings(c) == [t |-> "strings", s |-> <<>>, b |-> FALSE, c |-> c, m |-> EmptyMap]

NilConfig == [kind |-> "nil", id |-> <<>>, params |-> VNilMap]

\* &SAMLProviderConfigToCreate{}
NewToCreate == [kind |-> "create", id |-> <<>>, params |-> VNilMap]

\* &SAMLProviderConfigToUpdate{}
NewToUpdate == [kind |-> "update", id |-> <<>>, params |-> VNilMap]

\* SAMLProviderConfigToCreate.set and SAMLProviderConfigToUpdate.set:
\* [config, panic]
set(cfg, key, value) ==
    LET params == IF cfg.params.t = "nilmap" THEN VMap(EmptyMap) ELSE cfg.params
        r == Set(params.m, key, value)
    IN  [config |-> [cfg EXCEPT !.params = VMap(r.m)], panic |-> r.panic]

\* The loop of X509Certificates: []string to []idpCertificate
toIdpCertificates(certs) ==
    [i \in 1..Len(certs) |-> [X509Certificate |-> certs[i]]]

\* SAMLProviderConfigToCreate.DisplayName
CreateDisplayName(cfg, name) ==
    set(cfg, displayNameKey, VStr(name))

\* DisplayName of the update builder storing the name as given
UpdateDisplayName_Verbatim(cfg, name) ==
    set(cfg, displayNameKey, VStr(name))

\* SAMLProviderConfigToUpdate.DisplayName: nameOrNil stays nil for ""
UpdateDisplayName(cfg, name) ==
    LET nameOrNil == IF name # <<>> THEN VStr(name) ELSE VNil
    IN  set(cfg, displayNameKey, nameOrNil)

----------------------------------------------------------------------------
(* Validation.  err = "nil" is Go's nil error; err = "panic" is a failed   *)
(* type assertion.                                                         *)

\* validateSAMLConfigID testing for "saml" without the dot
validateSAMLConfigID_NoDot(id) ==
    IF ~HasPrefix(id, <<"s", "a", "m", "l">>)
    THEN "invalid SAML provider id"
    ELSE "nil"

\* validateSAMLConfigID
validateSAMLConfigID(id) ==
    IF ~HasPrefix(id, <<"s", "a", "m", "l", ".">>)
    THEN "invalid SAML provider id"
    ELSE "nil"

Fail(e) == [params |-> VNilMap, id |-> <<>>, err |-> e]

\* The X509Certificates checks shared by both buildRequest methods, given
\* the result of params.Get(idpCertsKey) with ok = TRUE
checkCerts(val) ==
    IF val.t # "certs" THEN "panic"
    ELSE IF Len(val.c) = 0 THEN "X509Certificates must not be empty"
    ELSE IF \E i \in 1..Len(val.c) : val.c[i].X509Certificate = <<>>
    THEN "X509Certificates must not contain empty strings"
    ELSE "nil"

\* buildRequest of the create builder checking the RP entity ID before the
\* IdP entity ID
createBuildRequest_RPFirst(cfg) ==
    LET m == cfg.params.m
        idErr == validateSAMLConfigID(cfg.id)
        idp == GetString(m, idpEntityIDKey)
        sso == GetString(m, ssoURLKey)
        certs == Get(m, idpCertsKey)
        sp == GetString(m, spEntityIDKey)
        cb == GetString(m, callbackURIKey)
    IN  IF idErr # "nil" THEN Fail(idErr)
        ELSE IF Cardinality(DOMAIN m) = 0
        THEN Fail("no parameters specified in the create request")
        ELSE IF sp.panic THEN Fail("panic")
        ELSE IF ~sp.ok \/ sp.s = <<>> THEN Fail("RPEntityID must not be empty")
        ELSE IF idp.panic THEN Fail("panic")
        ELSE IF ~idp.ok \/ idp.s = <<>> THEN Fail("IDPEntityID must not be empty")
        ELSE IF sso.panic THEN Fail("panic")
        ELSE IF ~sso.ok \/ sso.s = <<>> THEN Fail("SSOURL must not be empty")
        ELSE IF ~ParseRequestURI(sso.s) THEN Fail("failed to parse SSOURL")
        ELSE IF certs.panic THEN Fail("panic")
        ELSE IF ~certs.ok THEN Fail("X509Certificates must not be empty")
        ELSE IF checkCerts(certs.val) # "nil" THEN Fail(checkCerts(certs.val))
        ELSE IF cb.panic THEN Fail("panic")
        ELSE IF ~cb.ok \/ cb.s = <<>> THEN Fail("CallbackURL must not be empty")
        ELSE IF ~ParseRequestURI(cb.s) THEN Fail("failed to parse CallbackURL")
        ELSE [params |-> cfg.params, id |-> cfg.id, err |-> "nil"]

\* SAMLProviderConfigToCreate.buildRequest: [params, id, err]
createBuildRequest(cfg) ==
    LET m == cfg.params.m
        idErr == validateSAMLConfigID(cfg.id)
        idp == GetString(m, idpEntityIDKey)
        sso == GetString(m, ssoURLKey)
        certs == Get(m, idpCertsKey)
        sp == GetString(m, spEntityIDKey)
        cb == GetString(m, callbackURIKey)
    IN  IF idErr # "nil" THEN Fail(idErr)
        ELSE IF Cardinality(DOMAIN m) = 0
        THEN Fail("no parameters specified in the create request")
        ELSE IF idp.panic THEN Fail("panic")
        ELSE IF ~idp.ok \/ idp.s = <<>> THEN Fail("IDPEntityID must not be empty")
        ELSE IF sso.panic THEN Fail("panic")
        ELSE IF ~sso.ok \/ sso.s = <<>> THEN Fail("SSOURL must not be empty")
        ELSE IF ~ParseRequestURI(sso.s) THEN Fail("failed to parse SSOURL")
        ELSE IF certs.panic THEN Fail("panic")
        ELSE IF ~certs.ok THEN Fail("X509Certificates must not be empty")
        ELSE IF checkCerts(certs.val) # "nil" THEN Fail(checkCerts(certs.val))
        ELSE IF sp.panic THEN Fail("panic")
        ELSE IF ~sp.ok \/ sp.s = <<>> THEN Fail("RPEntityID must not be empty")
        ELSE IF cb.panic THEN Fail("panic")
        ELSE IF ~cb.ok \/ cb.s = <<>> THEN Fail("CallbackURL must not be empty")
        ELSE IF ~ParseRequestURI(cb.s) THEN Fail("failed to parse CallbackURL")
        ELSE [params |-> cfg.params, id |-> cfg.id, err |-> "nil"]

\* buildRequest of the update builder requiring the SP fields as creation
\* does
updateBuildRequest_RequiresSP(cfg) ==
    LET m == cfg.params.m
        idp == GetString(m, idpEntityIDKey)
        sso == GetString(m, ssoURLKey)
        certs == Get(m, idpCertsKey)
        sp == GetString(m, spEntityIDKey)
        cb == GetString(m, callbackURIKey)
    IN  IF Cardinality(DOMAIN m) = 0
        THEN Fail("no parameters specified in the update request")
        ELSE IF idp.panic THEN Fail("panic")
        ELSE IF idp.ok /\ idp.s = <<>> THEN Fail("IDPEntityID must not be empty")
        ELSE IF sso.panic THEN Fail("panic")
        ELSE IF sso.ok /\ sso.s = <<>> THEN Fail("SSOURL must not be empty")
        ELSE IF sso.ok /\ ~ParseRequestURI(sso.s) THEN Fail("failed to parse SSOURL")
        ELSE IF certs.panic THEN Fail("panic")
        ELSE IF certs.ok /\ checkCerts(certs.val) # "nil" THEN Fail(checkCerts(certs.val))
        ELSE IF sp.panic THEN Fail("panic")
        ELSE IF ~sp.ok \/ sp.s = <<>> THEN Fail("RPEntityID must not be empty")
        ELSE IF cb.panic THEN Fail("panic")
        ELSE IF ~cb.ok \/ cb.s = <<>> THEN Fail("CallbackURL must not be empty")
        ELSE IF ~ParseRequestURI(cb.s) THEN Fail("failed to parse CallbackURL")
        ELSE [params |-> cfg.params, id |-> <<>>, err |-> "nil"]

\* SAMLProviderConfigToUpdate.buildRequest: [params, id, err] (id unused)
updateBuildRequest(cfg) ==
    LET m == cfg.params.m
        idp == GetString(m, idpEntityIDKey)
        sso == GetString(m, ssoURLKey)
        certs == Get(m, idpCertsKey)
        sp == GetString(m, spEntityIDKey)
        cb == GetString(m, callbackURIKey)
    IN  IF Cardinality(DOMAIN m) = 0
        THEN Fail("no parameters specified in the update request")
        ELSE IF idp.panic THEN Fail("panic")
        ELSE IF idp.ok /\ idp.s = <<>> THEN Fail("IDPEntityID must not be empty")
        ELSE IF sso.panic THEN Fail("panic")
        ELSE IF sso.ok /\ sso.s = <<>> THEN Fail("SSOURL must not be empty")
        ELSE IF sso.ok /\ ~ParseRequestURI(sso.s) THEN Fail("failed to parse SSOURL")
        ELSE IF certs.panic THEN Fail("panic")
        ELSE IF certs.ok /\ checkCerts(certs.val) # "nil" THEN Fail(checkCerts(certs.val))
        ELSE IF sp.panic THEN Fail("panic")
        ELSE IF sp.ok /\ sp.s = <<>> THEN Fail("RPEntityID must not be empty")
        ELSE IF cb.panic THEN Fail("panic")
        ELSE IF cb.ok /\ cb.s = <<>> THEN Fail("CallbackURL must not be empty")
        ELSE IF cb.ok /\ ~ParseRequestURI(cb.s) THEN Fail("failed to parse CallbackURL")
        ELSE [params |-> cfg.params, id |-> <<>>, err |-> "nil"]

----------------------------------------------------------------------------
(* Transfer object and mapper *)

\* extractResourceID taking the first segment
extractResourceID_First(name) ==
    LET segments == Split(name, "/")
    IN  segments[1]

\* extractResourceID
extractResourceID(name) ==
    LET segments == Split(name, "/")
    IN  segments[Len(segments)]

\* samlProviderConfigDAO.toSAMLProviderConfig
toSAMLProviderConfig(d) ==
    LET certs == [i \in 1..Len(d.IDPConfig.IDPCertificates) |->
                      d.IDPConfig.IDPCertificates[i].X509Certificate]
    IN  [ID |-> extractResourceID(d.Name),
         DisplayName |-> d.DisplayName,
         Enabled |-> d.Enabled,
         IDPEntityID |-> d.IDPConfig.IDPEntityID,
         SSOURL |-> d.IDPConfig.SSOURL,
         RequestSigningEnabled |-> d.IDPConfig.SignRequest,
         X509Certificates |-> certs,
         RPEntityID |-> d.SPConfig.SPEntityID,
         CallbackURL |-> d.SPConfig.CallbackURI]

\* var result samlProviderConfigDAO
ZeroDAO ==
    [Name |-> <<>>,
     IDPConfig |-> [IDPEntityID |-> <<>>, SSOURL |-> <<>>,
                    IDPCertificates |-> <<>>, SignRequest |-> FALSE],
     SPConfig |-> [SPEntityID |-> <<>>, CallbackURI |-> <<>>],
     DisplayName |-> <<>>,
     Enabled |-> FALSE]

----------------------------------------------------------------------------
(* providerConfigClient.  Every operation returns                          *)
(* [err, sent, hasResult, result]: sent is the sequence of requests handed *)
(* to the transport.  resp is what the transport answers if it is asked:   *)
(* [err, dao].                                                             *)

NoOpts == [name |-> "", value |-> <<>>]

Request(method, url, body, opts) ==
    [Method |-> method, URL |-> url, Body |-> body, Opts |-> opts]

Outcome(err, sent, hasResult, result) ==
    [err |-> err, sent |-> sent, hasResult |-> hasResult, result |-> result]

NoResult == toSAMLProviderConfig(ZeroDAO)

\* internal.HTTPClient.DoAndUnmarshal: sends req, decodes resp into the DAO
DoAndUnmarshal(req, resp) ==
    [err |-> resp.err, sent |-> <<req>>, dao |-> resp.dao]

\* makeRequest without the project ID check
makeRequest_NoProjectCheck(project, req, resp) ==
    DoAndUnmarshal(
        [req EXCEPT !.URL = providerConfigEndpoint
                              \o <<"/", "p", "r", "o", "j", "e", "c", "t", "s", "/">>
                              \o project \o req.URL],
        resp)

\* providerConfigClient.makeRequest
makeRequest(project, req, resp) ==
    IF project = <<>>
    THEN [err |-> "project id not available", sent |-> <<>>, dao |-> ZeroDAO]
    ELSE DoAndUnmarshal(
             [req EXCEPT !.URL = providerConfigEndpoint
                                   \o <<"/", "p", "r", "o", "j", "e", "c", "t", "s", "/">>
                                   \o project \o req.URL],
             resp)

\* "/inboundSamlConfigs"
inboundSamlConfigs ==
    <<"/", "i", "n", "b", "o", "u", "n", "d", "S", "a", "m", "l", "C", "o", "n", "f", "i", "g", "s">>

\* The tail of the three operations that decode a result
decodeResult(r) ==
    IF r.err # "nil"
    THEN Outcome(r.err, r.sent, FALSE, NoResult)
    ELSE Outcome("nil", r.sent, TRUE, toSAMLProviderConfig(r.dao))

\* providerConfigClient.SAMLProviderConfig
SAMLProviderConfig(project, id, resp) ==
    IF validateSAMLConfigID(id) # "nil"
    THEN Outcome(validateSAMLConfigID(id), <<>>, FALSE, NoResult)
    ELSE decodeResult(makeRequest(project,
             Request("GET", inboundSamlConfigs \o <<"/">> \o id, VNilMap, NoOpts), resp))

\* providerConfigClient.CreateSAMLProviderConfig
CreateSAMLProviderConfig(project, cfg, resp) ==
    IF cfg.kind = "nil"
    THEN Outcome("config must not be nil", <<>>, FALSE, NoResult)
    ELSE LET b == createBuildRequest(cfg)
         IN  IF b.err # "nil"
             THEN Outcome(b.err, <<>>, FALSE, NoResult)
             ELSE decodeResult(makeRequest(project,
                      Request("POST", inboundSamlConfigs, b.params,
                              [name |-> "inboundSamlConfigId", value |-> b.id]), resp))

\* providerConfigClient.UpdateSAMLProviderConfig; order is the iteration
\* order of the maps while the mask is built
UpdateSAMLProviderConfig(project, id, cfg, order, resp) ==
    IF validateSAMLConfigID(id) # "nil"
    THEN Outcome(validateSAMLConfigID(id), <<>>, FALSE, NoResult)
    ELSE IF cfg.kind = "nil"
    THEN Outcome("config must not be nil", <<>>, FALSE, NoResult)
    ELSE LET b == updateBuildRequest(cfg)
             mask == UpdateMask(b.params.m, order)
         IN  IF b.err # "nil"
             THEN Outcome(b.err, <<>>, FALSE, NoResult)
             ELSE IF mask.err # "nil"
             THEN Outcome("failed to construct update mask", <<>>, FALSE, NoResult)
             ELSE decodeResult(makeRequest(project,
                      Request("PATCH", inboundSamlConfigs \o <<"/">> \o id, b.params,
                              [name |-> "updateMask", value |-> Join(mask.mask, ",")]), resp))

\* providerConfigClient.DeleteSAMLProviderConfig
DeleteSAMLProviderConfig(project, id, resp) ==
    IF validateSAMLConfigID(id) # "nil"
    THEN Outcome(validateSAMLConfigID(id), <<>>, FALSE, NoResult)
    ELSE LET r == makeRequest(project,
                      Request("DELETE", inboundSamlConfigs \o <<"/">> \o id, VNilMap, NoOpts),
                      [resp EXCEPT !.dao = ZeroDAO])
         IN  Outcome(r.err, r.sent, FALSE, NoResult)

----------------------------------------------------------------------------
(* Inputs *)

\* All strings over alphabet of length at most n
Strings(alphabet, n) ==
    UNION {[1..k -> alphabet] : k \in 0..n}

IDs ==
    {<<>>, <<"s", "a", "m", "l", "p">>, <<"s", "a", "m", "l", ".", "p">>}

ProjectIDs ==
    {<<>>, <<"p", "1">>}

EntityIDs ==
    {<<>>, <<"e">>}

URLs ==
    {<<>>, <<"x">>, <<"h", ":", "x">>}

CertStrings ==
    {<<>>, <<"c">>}

CertLists ==
    Strings(CertStrings, MaxCerts)

Flags ==
    {TRUE}

DisplayNames ==
    {<<>>, <<"n">>}

\* What the identity platform may answer
ResponseDAO ==
    [Name |-> <<"p", "/", "s", "a", "m", "l", ".", "p">>,
     IDPConfig |-> [IDPEntityID |-> <<"e">>, SSOURL |-> <<"h", ":", "x">>,
                    IDPCertificates |-> <<[X509Certificate |-> <<"c">>]>>,
                    SignRequest |-> TRUE],
     SPConfig |-> [SPEntityID |-> <<"e">>, CallbackURI |-> <<"h", ":", "x">>],
     DisplayName |-> <<"n">>,
     Enabled |-> TRUE]

Responses ==
    {[err |-> "transport error", dao |-> ZeroDAO], [err |-> "nil", dao |-> ResponseDAO]}

KeySegments ==
    <<<<"i", "d", "p", "C", "o", "n", "f", "i", "g">>,
      <<"s", "p", "C", "o", "n", "f", "i", "g">>,
      displayNameKey,
      enabledKey,
      <<"i", "d", "p", "E", "n", "t", "i", "t", "y", "I", "d">>,
      <<"s", "s", "o", "U", "r", "l">>,
      <<"s", "i", "g", "n", "R", "e", "q", "u", "e", "s", "t">>,
      <<"i", "d", "p", "C", "e", "r", "t", "i", "f", "i", "c", "a", "t", "e", "s">>,
      <<"s", "p", "E", "n", "t", "i", "t", "y", "I", "d">>,
      <<"c", "a", "l", "l", "b", "a", "c", "k", "U", "r", "i">>>>

Reverse(q) ==
    [i \in 1..Len(q) |-> q[Len(q) + 1 - i]]

\* Map iteration orders the mask is built under
IterOrders ==
    {KeySegments, Reverse(KeySegments),
     SubSeq(KeySegments, 4, 7) \o SubSeq(KeySegments, 1, 3) \o SubSeq(KeySegments, 8, 10)}

Setters ==
    {"ID", "IDPEntityID", "SSOURL", "RequestSigningEnabled", "X509Certificates",
     "RPEntityID", "CallbackURL", "DisplayName", "Enabled"}

AllUnset ==
    [n \in Setters |-> [set |-> FALSE, arg |-> VNil]]

Last(op, id, o) ==
    [op |-> op, id |-> id, err |-> o.err, sent |-> o.sent,
     hasResult |-> o.hasResult, result |-> o.result]

NoCall == Last("none", <<>>, Outcome("nil", <<>>, FALSE, NoResult))

NoOut ==
    [op |-> "none", path |-> <<>>, value |-> VNil, val |-> VNil, ok |-> FALSE, panic |-> FALSE]

NoMapped == [done |-> FALSE, cfg |-> NoResult]

----------------------------------------------------------------------------
(* Spec: a caller of the client.  It creates a builder, calls setters on   *)
(* it and hands it to CreateSAMLProviderConfig or UpdateSAMLProviderConfig,*)
(* which consumes it (a builder is used for one request and discarded); or *)
(* it reads or deletes a config.  A caller that holds no builder passes    *)
(* nil.                                                                    *)

OtherVars == <<nm, nsets, out, dao, mapped>>

Init ==
    /\ nm = EmptyMap
    /\ nsets = 0
    /\ out = NoOut
    /\ dao = ZeroDAO
    /\ mapped = NoMapped
    /\ projectID \in ProjectIDs
    /\ config = NilConfig
    /\ given = AllUnset
    /\ last = NoCall

NewCreate ==
    /\ config' = NewToCreate
    /\ given' = AllUnset
    /\ last' = NoCall
    /\ UNCHANGED <<projectID, OtherVars>>

NewUpdate ==
    /\ config' = NewToUpdate
    /\ given' = AllUnset
    /\ last' = NoCall
    /\ UNCHANGED <<projectID, OtherVars>>

\* A setter call on the builder of the given kind: r is what the method did
Setter(kind, name, arg, r) ==
    /\ config.kind = kind
    /\ config' = r.config
    /\ given' = [given EXCEPT ![name] = [set |-> TRUE, arg |-> arg]]
    /\ last' = Last("set", <<>>,
                    Outcome(IF r.panic THEN "panic" ELSE "nil", <<>>, FALSE, NoResult))
    /\ UNCHANGED <<projectID, OtherVars>>

ToCreateID ==
    \E id \in IDs :
        Setter("create", "ID", VStr(id), [config |-> [config EXCEPT !.id = id], panic |-> FALSE])

ToCreateIDPEntityID ==
    \E entityID \in EntityIDs :
        Setter("create", "IDPEntityID", VStr(entityID), set(config, idpEntityIDKey, VStr(entityID)))

ToCreateSSOURL ==
    \E url \in URLs :
        Setter("create", "SSOURL", VStr(url), set(config, ssoURLKey, VStr(url)))

ToCreateRequestSigningEnabled ==
    \E enabled \in Flags :
        Setter("create", "RequestSigningEnabled", VBool(enabled),
               set(config, signRequestKey, VBool(enabled)))

ToCreateX509Certificates ==
    \E certs \in CertLists :
        Setter("create", "X509Certificates", VStrings(certs),
               set(config, idpCertsKey, VCerts(toIdpCertificates(certs))))

ToCreateRPEntityID ==
    \E entityID \in EntityIDs :
        Setter("create", "RPEntityID", VStr(entityID), set(config, spEntityIDKey, VStr(entityID)))

ToCreateCallbackURL ==
    \E url \in URLs :
        Setter("create", "CallbackURL", VStr(url), set(config, callbackURIKey, VStr(url)))

ToCreateDisplayName ==
    \E name \in DisplayNames :
        Setter("create", "DisplayName", VStr(name), CreateDisplayName(config, name))

ToCreateEnabled ==
    \E enabled \in Flags :
        Setter("create", "Enabled", VBool(enabled), set(config, enabledKey, VBool(enabled)))

ToUpdateIDPEntityID ==
    \E entityID \in EntityIDs :
        Setter("update", "IDPEntityID", VStr(entityID), set(config, idpEntityIDKey, VStr(entityID)))

ToUpdateSSOURL ==
    \E url \in URLs :
        Setter("update", "SSOURL", VStr(url), set(config, ssoURLKey, VStr(url)))

ToUpdateRequestSigningEnabled ==
    \E enabled \in Flags :
        Setter("update", "RequestSigningEnabled", VBool(enabled),
               set(config, signRequestKey, VBool(enabled)))

ToUpdateX509Certificates ==
    \E certs \in CertLists :
        Setter("update", "X509Certificates", VStrings(certs),
               set(config, idpCertsKey, VCerts(toIdpCertificates(certs))))

ToUpdateRPEntityID ==
    \E entityID \in EntityIDs :
        Setter("update", "RPEntityID", VStr(entityID), set(config, spEntityIDKey, VStr(entityID)))

ToUpdateCallbackURL ==
    \E url \in URLs :
        Setter("update", "CallbackURL", VStr(url), set(config, callbackURIKey, VStr(url)))

ToUpdateDisplayName ==
    \E name \in DisplayNames :
        Setter("update", "DisplayName", VStr(name), UpdateDisplayName(config, name))

ToUpdateEnabled ==
    \E enabled \in Flags :
        Setter("update", "Enabled", VBool(enabled), set(config, enabledKey, VBool(enabled)))

\* client.SAMLProviderConfig(ctx, id), by a caller that holds no builder
CallGet ==
    /\ config.kind = "nil"
    /\ \E id \in IDs, resp \in Responses :
           last' = Last("get", id, SAMLProviderConfig(projectID, id, resp))
    /\ UNCHANGED <<config, given>>
    /\ UNCHANGED <<projectID, OtherVars>>

\* client.DeleteSAMLProviderConfig(ctx, id), by a caller that holds no builder
CallDelete ==
    /\ config.kind = "nil"
    /\ \E id \in IDs, resp \in Responses :
           last' = Last("delete", id, DeleteSAMLProviderConfig(projectID, id, resp))
    /\ UNCHANGED <<config, given>>
    /\ UNCHANGED <<projectID, OtherVars>>

\* client.CreateSAMLProviderConfig(ctx, config) with the create builder the
\* caller holds, or with nil when it holds none
CallCreate ==
    /\ config.kind \in {"create", "nil"}
    /\ \E resp \in Responses :
           last' = Last("create", given["ID"].arg.s,
                        CreateSAMLProviderConfig(projectID, config, resp))
    /\ config' = NilConfig
    /\ given' = AllUnset
    /\ UNCHANGED <<projectID, OtherVars>>

\* client.UpdateSAMLProviderConfig(ctx, id, config) with the update builder
\* the caller holds, or with nil when it holds none
CallUpdate ==
    /\ config.kind \in {"update", "nil"}
    /\ \E id \in IDs, order \in IterOrders, resp \in Responses :
           last' = Last("update", id,
                        UpdateSAMLProviderConfig(projectID, id, config, order, resp))
    /\ config' = NilConfig
    /\ given' = AllUnset
    /\ UNCHANGED <<projectID, OtherVars>>

Next ==
    \/ NewCreate
    \/ NewUpdate
    \/ ToCreateID
    \/ ToCreateIDPEntityID
    \/ ToCreateSSOURL
    \/ ToCreateRequestSigningEnabled
    \/ ToCreateX509Certificates
    \/ ToCreateRPEntityID
    \/ ToCreateCallbackURL
    \/ ToCreateDisplayName
    \/ ToCreateEnabled
    \/ ToUpdateIDPEntityID
    \/ ToUpdateSSOURL
    \/ ToUpdateRequestSigningEnabled
    \/ ToUpdateX509Certificates
    \/ ToUpdateRPEntityID
    \/ ToUpdateCallbackURL
    \/ ToUpdateDisplayName
    \/ ToUpdateEnabled
    \/ CallGet
    \/ CallDelete
    \/ CallCreate
    \/ CallUpdate

Spec == Init /\ [][Next]_vars

----------------------------------------------------------------------------
(* What the caller asked for, read off the setter arguments in given (not  *)
(* off the nested store), for stating the properties.                      *)

IsSet(n) == given[n].set

Arg(n) == given[n].arg

FieldSetters == Setters \ {"ID"}

CallOps == {"get", "create", "update", "delete"}

StartsWithSaml(id) ==
    /\ Len(id) >= 5
    /\ id[1] = "s" /\ id[2] = "a" /\ id[3] = "m" /\ id[4] = "l" /\ id[5] = "."

NoneSet == \A n \in FieldSetters : ~IsSet(n)

\* The error create validation must return for the arguments in given, by
\* the seven checks in their order; "nil" when all pass
ExpectedCreateErr ==
    IF ~StartsWithSaml(Arg("ID").s) THEN "invalid SAML provider id"
    ELSE IF NoneSet THEN "no parameters specified in the create request"
    ELSE IF ~IsSet("IDPEntityID") \/ Arg("IDPEntityID").s = <<>>
    THEN "IDPEntityID must not be empty"
    ELSE IF ~IsSet("SSOURL") \/ Arg("SSOURL").s = <<>> THEN "SSOURL must not be empty"
    ELSE IF ~ParseRequestURI(Arg("SSOURL").s) THEN "failed to parse SSOURL"
    ELSE IF ~IsSet("X509Certificates") \/ Len(Arg("X509Certificates").c) = 0
    THEN "X509Certificates must not be empty"
    ELSE IF \E i \in 1..Len(Arg("X509Certificates").c) : Arg("X509Certificates").c[i] = <<>>
    THEN "X509Certificates must not contain empty strings"
    ELSE IF ~IsSet("RPEntityID") \/ Arg("RPEntityID").s = <<>>
    THEN "RPEntityID must not be empty"
    ELSE IF ~IsSet("CallbackURL") \/ Arg("CallbackURL").s = <<>>
    THEN "CallbackURL must not be empty"
    ELSE IF ~ParseRequestURI(Arg("CallbackURL").s) THEN "failed to parse CallbackURL"
    ELSE "nil"

\* The errors of update validation that blame a field
FieldErrors ==
    {"IDPEntityID must not be empty", "SSOURL must not be empty", "failed to parse SSOURL",
     "X509Certificates must not be empty", "X509Certificates must not contain empty strings",
     "RPEntityID must not be empty", "CallbackURL must not be empty",
     "failed to parse CallbackURL"}

\* The supplied field that error e blames is invalid in the way e says
Blamed(e) ==
    CASE e = "IDPEntityID must not be empty" ->
             IsSet("IDPEntityID") /\ Arg("IDPEntityID").s = <<>>
      [] e = "SSOURL must not be empty" ->
             IsSet("SSOURL") /\ Arg("SSOURL").s = <<>>
      [] e = "failed to parse SSOURL" ->
             IsSet("SSOURL") /\ Arg("SSOURL").s # <<>> /\ ~ParseRequestURI(Arg("SSOURL").s)
      [] e = "X509Certificates must not be empty" ->
             IsSet("X509Certificates") /\ Len(Arg("X509Certificates").c) = 0
      [] e = "X509Certificates must not contain empty strings" ->
             /\ IsSet("X509Certificates")
             /\ \E i \in 1..Len(Arg("X509Certificates").c) : Arg("X509Certificates").c[i] = <<>>
      [] e = "RPEntityID must not be empty" ->
             IsSet("RPEntityID") /\ Arg("RPEntityID").s = <<>>
      [] e = "CallbackURL must not be empty" ->
             IsSet("CallbackURL") /\ Arg("CallbackURL").s = <<>>
      [] e = "failed to parse CallbackURL" ->
             /\ IsSet("CallbackURL") /\ Arg("CallbackURL").s # <<>>
             /\ ~ParseRequestURI(Arg("CallbackURL").s)
      [] OTHER -> FALSE

\* Every field that was supplied is valid
SuppliedFieldsValid == \A e \in FieldErrors : ~Blamed(e)

\* The field path each setter writes
KeyOf(n) ==
    CASE n = "IDPEntityID" -> idpEntityIDKey
      [] n = "SSOURL" -> ssoURLKey
      [] n = "RequestSigningEnabled" -> signRequestKey
      [] n = "X509Certificates" -> idpCertsKey
      [] n = "RPEntityID" -> spEntityIDKey
      [] n = "CallbackURL" -> callbackURIKey
      [] n = "DisplayName" -> displayNameKey
      [] n = "Enabled" -> enabledKey

ExpectedPaths == {KeyOf(n) : n \in {f \in FieldSetters : IsSet(f)}}

\* The value a setter stores for its argument
LeafOf(kind, n) ==
    CASE n \in {"IDPEntityID", "SSOURL", "RPEntityID", "CallbackURL"} -> VStr(Arg(n).s)
      [] n \in {"RequestSigningEnabled", "Enabled"} -> VBool(Arg(n).b)
      [] n = "X509Certificates" ->
             VCerts([i \in 1..Len(Arg(n).c) |-> [X509Certificate |-> Arg(n).c[i]]])
      [] n = "DisplayName" ->
             IF kind = "update" /\ Arg(n).s = <<>> THEN VNil ELSE VStr(Arg(n).s)

\* The JSON object the setter arguments in given describe, written out
ExpectedBody(kind) ==
    LET idpNames == {n \in {"IDPEntityID", "SSOURL", "RequestSigningEnabled",
                            "X509Certificates"} : IsSet(n)}
        spNames == {n \in {"RPEntityID", "CallbackURL"} : IsSet(n)}
        Sub(names, prefixLen) ==
            [k \in {SubSeq(KeyOf(n), prefixLen + 2, Len(KeyOf(n))) : n \in names} |->
                LeafOf(kind, CHOOSE n \in names :
                                 SubSeq(KeyOf(n), prefixLen + 2, Len(KeyOf(n))) = k)]
        idpSeg == SubSeq(idpEntityIDKey, 1, 9)
        spSeg == SubSeq(spEntityIDKey, 1, 8)
        top == (IF idpNames # {} THEN {idpSeg} ELSE {})
                   \cup (IF spNames # {} THEN {spSeg} ELSE {})
                   \cup {KeyOf(n) : n \in {f \in {"DisplayName", "Enabled"} : IsSet(f)}}
    IN  VMap([k \in top |->
                 IF k = idpSeg THEN VMap(Sub(idpNames, 9))
                 ELSE IF k = spSeg THEN VMap(Sub(spNames, 8))
                 ELSE IF k = displayNameKey THEN LeafOf(kind, "DisplayName")
                 ELSE LeafOf(kind, "Enabled")])

----------------------------------------------------------------------------
(* Properties of the client and the builders, under Spec *)

\* C1: whenever one of the four client operations is called with an
\* identifier that does not start with "saml." (for create: the identifier
\* set on the builder), it returns an error and no request reaches the
\* transport, whatever the project ID and the other arguments.
C1_BadIDRejectedBeforeNetwork ==
    (last.op \in CallOps /\ ~StartsWithSaml(last.id)) =>
        (last.err # "nil" /\ last.sent = <<>> /\ ~last.hasResult)

C1_Witness ==
    /\ last.op = "update"
    /\ last.id = <<"s", "a", "m", "l", "p">>
    /\ projectID # <<>>
    /\ last.err = "invalid SAML provider id"
    /\ last.sent = <<>>

\* C2: a call of CreateSAMLProviderConfig with a create builder fails with
\* the error of the first failing check, in the order identifier prefix,
\* non-empty store, IdP entity ID, SSO URL, certificates, RP entity ID,
\* callback URL, and sends nothing; when all seven pass, buildRequest
\* returns the store and the identifier, which go out as the body and the
\* inboundSamlConfigId parameter of the one request (display name, enabled
\* and signing flag are not required).
C2_CreateValidationOrder ==
    [][(config.kind = "create" /\ last'.op = "create") =>
          LET b == createBuildRequest(config)
          IN  /\ b.err = ExpectedCreateErr
              /\ ExpectedCreateErr # "nil" => (last'.err = ExpectedCreateErr /\ last'.sent = <<>>)
              /\ ExpectedCreateErr = "nil" =>
                     /\ b.params = ExpectedBody("create")
                     /\ b.id = Arg("ID").s
                     /\ last'.err \notin FieldErrors \cup
                            {"invalid SAML provider id", "panic",
                             "no parameters specified in the create request"}
                     /\ projectID # <<>> =>
                            /\ Len(last'.sent) = 1
                            /\ last'.sent[1].Method = "POST"
                            /\ last'.sent[1].Body = ExpectedBody("create")
                            /\ last'.sent[1].Opts =
                                   [name |-> "inboundSamlConfigId", value |-> Arg("ID").s]
      ]_vars

C2_Witness ==
    /\ last.op = "create"
    /\ last.err = "nil"
    /\ Len(last.sent) = 1
    /\ DOMAIN last.sent[1].Body.m = {SubSeq(idpEntityIDKey, 1, 9), SubSeq(spEntityIDKey, 1, 8)}
    /\ Cardinality(DOMAIN last.sent[1].Body.m[SubSeq(idpEntityIDKey, 1, 9)].m) = 3

\* C3: a call of UpdateSAMLProviderConfig with a valid identifier and an
\* update builder fails with "no parameters specified" exactly when no
\* setter was called; any other validation failure blames a field that was
\* supplied and is invalid in the way the error says; a builder with at
\* least one setter called and every supplied field valid passes
\* validation, and one with an invalid supplied field does not.
C3_UpdatePartialSemantics ==
    [][(config.kind = "update" /\ last'.op = "update" /\ StartsWithSaml(last'.id)) =>
          /\ (last'.err = "no parameters specified in the update request") <=> NoneSet
          /\ last'.err # "panic"
          /\ last'.err \in FieldErrors => Blamed(last'.err)
          /\ (~NoneSet /\ SuppliedFieldsValid) => last'.err \notin FieldErrors
          /\ (~NoneSet /\ ~SuppliedFieldsValid) => last'.err \in FieldErrors
      ]_vars

C3_Witness ==
    /\ last.op = "update"
    /\ last.err = "nil"
    /\ Len(last.sent) = 1
    /\ DOMAIN last.sent[1].Body.m = {SubSeq(spEntityIDKey, 1, 8)}
    /\ DOMAIN last.sent[1].Body.m[SubSeq(spEntityIDKey, 1, 8)].m
           = {SubSeq(callbackURIKey, 10, Len(callbackURIKey))}

\* C4: when UpdateSAMLProviderConfig sends its request, the updateMask
\* query parameter, split on ",", lists exactly the field paths whose
\* setters were called, each once, and so no intermediate path; with only
\* the signing flag set it is exactly idpConfig.signRequest.
C4_UpdateMaskExact ==
    [][(config.kind = "update" /\ last'.op = "update" /\ Len(last'.sent) = 1) =>
          LET q == last'.sent[1].Opts
              mask == Split(q.value, ",")
          IN  /\ q.name = "updateMask"
              /\ {mask[i] : i \in 1..Len(mask)} = ExpectedPaths
              /\ Len(mask) = Cardinality(ExpectedPaths)
              /\ SubSeq(idpEntityIDKey, 1, 9) \notin {mask[i] : i \in 1..Len(mask)}
              /\ SubSeq(spEntityIDKey, 1, 8) \notin {mask[i] : i \in 1..Len(mask)}
              /\ ExpectedPaths = {signRequestKey} => q.value = signRequestKey
      ]_vars

C4_Witness ==
    /\ last.op = "update"
    /\ Len(last.sent) = 1
    /\ Len(Split(last.sent[1].Opts.value, ",")) = 8

\* C5: once DisplayName("") was called on an update builder, the store
\* holds the nil marker under displayName; the builder is not "empty", it
\* passes validation when its other supplied fields are valid, and the mask
\* and the body of the request carry displayName (as nil).  A builder whose
\* DisplayName setter was never called has no displayName in its store or
\* its mask.
C5_EmptyDisplayNameIsMarker ==
    [][/\ (config.kind = "update" /\ IsSet("DisplayName") /\ Arg("DisplayName").s = <<>>) =>
              /\ displayNameKey \in DOMAIN config.params.m
              /\ config.params.m[displayNameKey] = VNil
              /\ (last'.op = "update" /\ StartsWithSaml(last'.id)) =>
                     /\ last'.err # "no parameters specified in the update request"
                     /\ SuppliedFieldsValid => last'.err \notin FieldErrors \cup {"panic"}
                     /\ Len(last'.sent) = 1 =>
                            /\ displayNameKey \in
                                   {Split(last'.sent[1].Opts.value, ",")[i] :
                                        i \in 1..Len(Split(last'.sent[1].Opts.value, ","))}
                            /\ last'.sent[1].Body.m[displayNameKey] = VNil
       /\ (config.kind = "update" /\ ~IsSet("DisplayName")) =>
              /\ displayNameKey \notin DOMAIN config.params.m
              /\ (last'.op = "update" /\ Len(last'.sent) = 1) =>
                     displayNameKey \notin
                         {Split(last'.sent[1].Opts.value, ",")[i] :
                              i \in 1..Len(Split(last'.sent[1].Opts.value, ","))}
      ]_vars

C5_Witness ==
    /\ last.op = "update"
    /\ Len(last.sent) = 1
    /\ last.sent[1].Opts.value = displayNameKey
    /\ last.sent[1].Body = VMap([k \in {displayNameKey} |-> VNil])

\* C6: every call of a client operation hands at most one request to the
\* transport: none, with an error returned, when a local check fails (bad
\* identifier, nil builder, failed builder validation, empty project ID),
\* and exactly one when all local checks pass.
C6_AtMostOneRequest ==
    [][last'.op \in CallOps =>
          LET op == last'.op
              localOK ==
                  /\ projectID # <<>>
                  /\ op \in {"get", "delete", "update"} => StartsWithSaml(last'.id)
                  /\ op = "create" => (config.kind = "create" /\ ExpectedCreateErr = "nil")
                  /\ op = "update" =>
                         (config.kind = "update" /\ ~NoneSet /\ SuppliedFieldsValid)
          IN  /\ Len(last'.sent) <= 1
              /\ localOK => Len(last'.sent) = 1
              /\ ~localOK => (last'.sent = <<>> /\ last'.err # "nil")
      ]_vars

C6_Witness ==
    /\ last.op = "create"
    /\ projectID = <<>>
    /\ last.err = "project id not available"
    /\ last.sent = <<>>

\* The segments allowed below idpConfig and spConfig
IdpFieldSegments ==
    {SubSeq(k, 11, Len(k)) : k \in {idpEntityIDKey, ssoURLKey, signRequestKey, idpCertsKey}}

SpFieldSegments ==
    {SubSeq(k, 10, Len(k)) : k \in {spEntityIDKey, callbackURIKey}}

\* C10: the store of a builder is structurally consistent after any setter
\* calls: top-level keys among idpConfig, spConfig, displayName, enabled;
\* idpConfig and spConfig non-empty maps over their own field keys; every
\* leaf a string, a boolean, nil or a certificate list.  No setter, no
\* buildRequest and no client call ends in a failed type assertion.
C10_BuilderStoreConsistent ==
    /\ last.err # "panic"
    /\ config.kind \in {"create", "update"} =>
           LET m == config.params.m
               idpSeg == SubSeq(idpEntityIDKey, 1, 9)
               spSeg == SubSeq(spEntityIDKey, 1, 8)
               leafTypes == {"string", "bool", "nil", "certs"}
           IN  /\ DOMAIN m \subseteq {idpSeg, spSeg, displayNameKey, enabledKey}
               /\ idpSeg \in DOMAIN m =>
                      /\ m[idpSeg].t = "map"
                      /\ DOMAIN m[idpSeg].m # {}
                      /\ DOMAIN m[idpSeg].m \subseteq IdpFieldSegments
                      /\ \A k \in DOMAIN m[idpSeg].m : m[idpSeg].m[k].t \in leafTypes
               /\ spSeg \in DOMAIN m =>
                      /\ m[spSeg].t = "map"
                      /\ DOMAIN m[spSeg].m # {}
                      /\ DOMAIN m[spSeg].m \subseteq SpFieldSegments
                      /\ \A k \in DOMAIN m[spSeg].m : m[spSeg].m[k].t \in leafTypes
               /\ \A k \in DOMAIN m \cap {displayNameKey, enabledKey} : m[k].t \in leafTypes
               /\ createBuildRequest(config).err # "panic"
               /\ updateBuildRequest(config).err # "panic"
               /\ \A n \in FieldSetters :
                      /\ ~Get(m, KeyOf(n)).panic
                      /\ Get(m, KeyOf(n)).ok <=> IsSet(n)
                      /\ ~Set(m, KeyOf(n), VNil).panic

C10_Witness ==
    /\ config.kind = "update"
    /\ last.op = "set"
    /\ \A n \in FieldSetters : IsSet(n)
    /\ config.params.m[displayNameKey] = VNil
    /\ Cardinality(DOMAIN config.params.m[SubSeq(idpEntityIDKey, 1, 9)].m) = 4

----------------------------------------------------------------------------
(* SpecStore: the nested key-path store on its own, driven by arbitrary    *)
(* Set and Get calls.  A panicking call leaves the store as it was; the    *)
(* caller is taken to recover and go on.                                   *)

StorePaths ==
    Strings({"a", "."}, MaxPathLen)

StoreValues ==
    {VStr(<<"x">>), VNil, VMap(EmptyMap)}

ClientIdle ==
    /\ projectID = <<>>
    /\ config = NilConfig
    /\ given = AllUnset
    /\ last = NoCall

InitStore ==
    /\ nm = EmptyMap
    /\ nsets = 0
    /\ out = NoOut
    /\ dao = ZeroDAO
    /\ mapped = NoMapped
    /\ ClientIdle

\* nm.Set(path, value)
StoreSet ==
    /\ nsets < MaxSets
    /\ \E path \in StorePaths, value \in StoreValues :
           LET r == Set(nm, path, value)
           IN  /\ nm' = r.m
               /\ out' = [op |-> "Set", path |-> path, value |-> value,
                          val |-> VNil, ok |-> FALSE, panic |-> r.panic]
    /\ nsets' = nsets + 1
    /\ UNCHANGED <<projectID, config, given, last, dao, mapped>>

\* nm.Get(path)
StoreGet ==
    /\ \E path \in StorePaths :
           LET r == Get(nm, path)
           IN  out' = [op |-> "Get", path |-> path, value |-> VNil,
                       val |-> r.val, ok |-> r.ok, panic |-> r.panic]
    /\ UNCHANGED <<nm, nsets, projectID, config, given, last, dao, mapped>>

NextStore ==
    \/ StoreSet
    \/ StoreGet

SpecStore == InitStore /\ [][NextStore]_vars

\* Some segment before the last is absent from its map or is not a map
RECURSIVE Blocked(_, _)
Blocked(m, segments) ==
    IF Len(segments) <= 1 THEN FALSE
    ELSE \/ Head(segments) \notin DOMAIN m
         \/ m[Head(segments)].t # "map"
         \/ Blocked(m[Head(segments)].m, Tail(segments))

\* C8: Get never aborts, and reports "not found" when an intermediate
\* segment of the path is absent or is not a nested map.
C8_GetSignalsAbsence ==
    out.op = "Get" =>
        /\ ~out.panic
        /\ Blocked(nm, Split(out.path, ".")) => ~out.ok

\* C9: Set(p, v) completes on any store, and a Get(p) right after it finds
\* exactly v.
C9_SetThenGet ==
    out.op = "Set" =>
        /\ ~out.panic
        /\ Get(nm, out.path) = [val |-> out.value, ok |-> TRUE, panic |-> FALSE]

----------------------------------------------------------------------------
(* SpecMapper: toSAMLProviderConfig applied to a decoded transfer object   *)

ExampleName ==
    <<"p", "r", "o", "j", "e", "c", "t", "s", "/", "p", "1", "/", "i", "n", "b", "o", "u", "n", "d", "S", "a", "m", "l", "C", "o", "n", "f", "i", "g", "s", "/", "s", "a", "m", "l", ".", "p", "r", "o", "v", "i", "d", "e", "r", "1">>

ExampleID ==
    <<"s", "a", "m", "l", ".", "p", "r", "o", "v", "i", "d", "e", "r", "1">>

DAONames ==
    Strings({"p", "/"}, MaxNameLen) \cup {ExampleName}

DAOCertLists ==
    Strings({[X509Certificate |-> <<"c">>], [X509Certificate |-> <<"d">>]}, MaxDaoCerts)

DAOs ==
    {[ZeroDAO EXCEPT !.Name = name,
                     !.IDPConfig.IDPCertificates = certs,
                     !.IDPConfig.SignRequest = sign,
                     !.DisplayName = display,
                     !.Enabled = enabled] :
        name \in DAONames, certs \in DAOCertLists, sign \in BOOLEAN,
        display \in DisplayNames, enabled \in BOOLEAN}

InitMapper ==
    /\ nm = EmptyMap
    /\ nsets = 0
    /\ out = NoOut
    /\ dao \in DAOs
    /\ mapped = NoMapped
    /\ ClientIdle

\* dao.toSAMLProviderConfig()
MapDAO ==
    /\ ~mapped.done
    /\ mapped' = [done |-> TRUE, cfg |-> toSAMLProviderConfig(dao)]
    /\ UNCHANGED <<nm, nsets, out, projectID, config, given, last, dao>>

NextMapper ==
    MapDAO

SpecMapper == InitMapper /\ [][NextMapper]_vars

\* What follows the last "/" of name; all of name when it has none
AfterLastSlash(name) ==
    LET slashes == {i \in 1..Len(name) : name[i] = "/"}
        k == IF slashes = {} THEN 0
             ELSE CHOOSE i \in slashes : \A j \in slashes : j <= i
    IN  SubSeq(name, k + 1, Len(name))

\* C7: the mapped identifier is the last "/"-separated segment of the
\* resource name (the whole name when it has no "/"), the example name maps
\* to saml.provider1, and the certificate strings are those of the transfer
\* object's certificate objects, same length, same order.
C7_MapperIDAndCerts ==
    mapped.done =>
        /\ mapped.cfg.ID = AfterLastSlash(dao.Name)
        /\ (\A i \in 1..Len(dao.Name) : dao.Name[i] # "/") => mapped.cfg.ID = dao.Name
        /\ dao.Name = ExampleName => mapped.cfg.ID = ExampleID
        /\ Len(mapped.cfg.X509Certificates) = Len(dao.IDPConfig.IDPCertificates)
        /\ \A i \in 1..Len(dao.IDPConfig.IDPCertificates) :
               mapped.cfg.X509Certificates[i] = dao.IDPConfig.IDPCertificates[i].X509Certificate

C7_Witness ==
    /\ mapped.done
    /\ dao.Name = ExampleName
    /\ mapped.cfg.ID = ExampleID
    /\ mapped.cfg.X509Certificates = <<<<"d">>, <<"c">>>>

====
